---- MODULE Spec2Model ----
(***************************************************************************)
(* Model of get_correlations (src/gperdrizet_functions.py, lines 9-57).    *)
(*                                                                         *)
(* Two specifications share the operators that model the loop body:       *)
(*   Spec       a caller issuing a bounded session of get_correlations     *)
(*              calls, each with the accumulator omitted or with a table  *)
(*              it holds from an earlier call; tables live in a heap so   *)
(*              that aliasing is visible.                                  *)
(*   SpecClean  one iteration of the loop body, statement by statement,   *)
(*              over every dataset of a bounded family; DataFrames live   *)
(*              in a heap so that the in-place statements are visible.    *)
(*                                                                         *)
(* Real numbers: a correlation coefficient over integer data is           *)
(* sign * sqrt(num/den) with num/den a reduced fraction; it is kept in    *)
(* that exact form, so abs() and **2 are computed, not assumed.           *)
(***************************************************************************)
EXTENDS Integers, Sequences, FiniteSets, TLC

\* ------------------------------------------------------------------ cells

\* A cell of a DataFrame column: a finite number, NaN (missing), +inf or -inf.
Num(n) == [kind |-> "num", v |-> n]
NaN == [kind |-> "nan", v |-> 0]
PosInf == [kind |-> "inf", v |-> 1]
NegInf == [kind |-> "inf", v |-> -1]

\* pandas isna(): NaN is missing, the infinities are not.
IsNa(c) == c.kind = "nan"

\* ----------------------------------------------------------------- frames

\* A DataFrame: column labels and, position by position, the columns.
Frame(names, cols) == [names |-> names, cols |-> cols]

NumRows(f) == IF Len(f.cols) = 0 THEN 0 ELSE Len(f.cols[1])

HasColumn(f, name) == \E j \in 1..Len(f.names) : f.names[j] = name

Column(f, name) == f.cols[CHOOSE j \in 1..Len(f.names) : f.names[j] = name]

\* df[[*feature_pair]]: a new frame holding the two named columns, in the
\* order of the pair.
SelectColumns(f, pair) ==
    Frame(pair, <<Column(f, pair[1]), Column(f, pair[2])>>)

\* The row positions of a frame or column of n rows, in increasing order.
RowIndex(n) == [i \in 1..n |-> i]

\* The rows of f at the positions idx, in that order, all columns alike.
TakeRows(f, idx) ==
    Frame(f.names,
          [c \in 1..Len(f.cols) |-> [j \in 1..Len(idx) |-> f.cols[c][idx[j]]]])

\* DataFrame.dropna(): drop every row that has a missing value in any column.
Dropna(f) ==
    TakeRows(f, SelectSeq(RowIndex(NumRows(f)),
                          LAMBDA i : \A c \in 1..Len(f.cols) :
                                        ~IsNa(f.cols[c][i])))

\* DataFrame.replace([np.inf, -np.inf], np.nan): each of the two listed
\* values becomes NaN, every other cell is kept.
\* Variant: only +inf is replaced.
ReplaceCellPositive(c) == IF c = PosInf THEN NaN ELSE c

ReplaceCell(c) == IF c = PosInf \/ c = NegInf THEN NaN ELSE c

ReplaceInf(f) ==
    Frame(f.names,
          [c \in 1..Len(f.cols) |->
              [i \in 1..Len(f.cols[c]) |-> ReplaceCell(f.cols[c][i])]])

\* iloc[:, j]: the j-th column by position.
Iloc(f, j) == f.cols[j]

\* ------------------------------------------------------------- statistics

\* A statistic: NaN, or the real number sign * sqrt(num/den), num/den reduced.
NanStat == [nan |-> TRUE, sign |-> 0, num |-> 0, den |-> 1]

RECURSIVE Gcd(_, _)
Gcd(a, b) == IF b = 0 THEN a ELSE Gcd(b, a % b)

Sgn(n) == IF n > 0 THEN 1 ELSE IF n < 0 THEN -1 ELSE 0

\* sign * sqrt(num/den) in reduced form (den > 0, num >= 0).
Root(sign, num, den) ==
    IF sign = 0 \/ num = 0
    THEN [nan |-> FALSE, sign |-> 0, num |-> 0, den |-> 1]
    ELSE [nan |-> FALSE, sign |-> sign,
          num |-> num \div Gcd(num, den), den |-> den \div Gcd(num, den)]

\* abs(): NaN stays NaN, a number loses its sign.
Abs(r) == IF r.nan THEN r ELSE [r EXCEPT !.sign = IF r.sign = 0 THEN 0 ELSE 1]

\* r**2: NaN stays NaN; (sign*sqrt(num/den))**2 = num/den = sqrt(num^2/den^2).
Square(r) ==
    IF r.nan THEN r
    ELSE Root(IF r.sign = 0 THEN 0 ELSE 1, r.num * r.num, r.den * r.den)

RECURSIVE SumProd(_, _)
SumProd(x, y) ==
    IF Len(x) = 0 THEN 0 ELSE x[1] * y[1] + SumProd(Tail(x), Tail(y))

Ones(n) == [i \in 1..n |-> 1]

\* The product-moment coefficient of two integer sequences of equal length:
\* (n*Sxy - Sx*Sy) / sqrt((n*Sxx - Sx^2) * (n*Syy - Sy^2)); NaN when either
\* sequence is constant (scipy warns ConstantInputWarning and returns nan).
Coefficient(x, y) ==
    LET n == Len(x)
        cxy == n * SumProd(x, y) - SumProd(x, Ones(n)) * SumProd(y, Ones(n))
        cxx == n * SumProd(x, x) - SumProd(x, Ones(n)) * SumProd(x, Ones(n))
        cyy == n * SumProd(y, y) - SumProd(y, Ones(n)) * SumProd(y, Ones(n))
    IN  IF cxx = 0 \/ cyy = 0 THEN NanStat
        ELSE Root(Sgn(cxy), cxy * cxy, cxx * cyy)

Values(col) == [i \in 1..Len(col) |-> col[i].v]

\* Twice the average rank of each element (ties share the mean of their
\* positions): 2 * #smaller + #equal + 1.  The coefficient is invariant
\* under the scaling, and the doubled ranks are integers.
Ranks(x) ==
    [i \in 1..Len(x) |->
        2 * Cardinality({j \in 1..Len(x) : x[j] < x[i]})
          + Cardinality({j \in 1..Len(x) : x[j] = x[i]}) + 1]

\* A two-sided p-value is a function of the coefficient and the sample size
\* only; it is kept as that application (NaN for a NaN coefficient).
PValue(test, r, n) ==
    IF r.nan THEN [test |-> test, nan |-> TRUE, r |-> NanStat, n |-> 0]
    ELSE [test |-> test, nan |-> FALSE, r |-> r, n |-> n]

\* stats.pearsonr raises ValueError when the inputs have fewer than 2 rows.
TooShort(x) == Len(x) < 2

\* stats.pearsonr(x, y) for inputs of length >= 2.
Pearsonr(x, y) ==
    LET r == Coefficient(Values(x), Values(y))
    IN  [statistic |-> r, pvalue |-> PValue("pearson", r, Len(x))]

\* stats.spearmanr(x, y): the product-moment coefficient of the ranks.
Spearmanr(x, y) ==
    LET r == Coefficient(Ranks(Values(x)), Ranks(Values(y)))
    IN  [statistic |-> r, pvalue |-> PValue("spearman", r, Len(x))]

\* ----------------------------------------------------------- result table

\* The nine keys of the dictionary created when no results are passed in.
Columns ==
    {"Feature 1", "Feature 2", "Absolute Spearman", "Spearman",
     "Spearman p-value", "Absolute Pearson", "Pearson", "Pearson p-value",
     "Pearson r-squared"}

EmptyTable == [c \in Columns |-> <<>>]

\* Variant: the coefficient is stored under 'Pearson r-squared' unsquared.
RecordUnsquared(feature_pair, pcc, src) ==
    [c \in Columns |->
        CASE c = "Feature 1" -> feature_pair[1]
          [] c = "Feature 2" -> feature_pair[2]
          [] c = "Absolute Spearman" -> Abs(src.statistic)
          [] c = "Spearman" -> src.statistic
          [] c = "Spearman p-value" -> src.pvalue
          [] c = "Absolute Pearson" -> pcc.statistic
          [] c = "Pearson" -> pcc.statistic
          [] c = "Pearson p-value" -> pcc.pvalue
          [] c = "Pearson r-squared" -> pcc.statistic]

\* The values collected for one feature pair, key by key.
Record(feature_pair, pcc, src) ==
    [c \in Columns |->
        CASE c = "Feature 1" -> feature_pair[1]
          [] c = "Feature 2" -> feature_pair[2]
          [] c = "Absolute Spearman" -> Abs(src.statistic)
          [] c = "Spearman" -> src.statistic
          [] c = "Spearman p-value" -> src.pvalue
          [] c = "Absolute Pearson" -> pcc.statistic
          [] c = "Pearson" -> pcc.statistic
          [] c = "Pearson p-value" -> pcc.pvalue
          [] c = "Pearson r-squared" -> Square(pcc.statistic)]

\* Variant: the values are inserted at the front of the lists.
AppendRecordFront(table, rec) == [c \in Columns |-> <<rec[c]>> \o table[c]]

\* Variant: the last append is missing.
AppendRecordShort(table, rec) ==
    [c \in Columns |->
        IF c = "Pearson r-squared" THEN table[c] ELSE Append(table[c], rec[c])]

\* One .append per key: every list of the table grows by its value.
AppendRecord(table, rec) == [c \in Columns |-> Append(table[c], rec[c])]

\* ------------------------------------------------------------ loop body

\* Variant: no pair is excluded.
SelfPairNever(feature_pair) == FALSE

\* "Exclude self pairs": the body runs only when the two names differ.
SelfPair(feature_pair) == feature_pair[1] = feature_pair[2]

\* df[[a, b]] raises KeyError when a name is not a column of df.
LookupFails(d, feature_pair) ==
    ~HasColumn(d, feature_pair[1]) \/ ~HasColumn(d, feature_pair[2])

\* feature_pair_data after the three cleaning statements.
Clean(d, feature_pair) ==
    Dropna(ReplaceInf(Dropna(SelectColumns(d, feature_pair))))

\* The body raises: at the column lookup, or in pearsonr on a short sample.
Raises(d, feature_pair) ==
    IF LookupFails(d, feature_pair) THEN TRUE
    ELSE TooShort(Iloc(Clean(d, feature_pair), 1))

\* The record the body collects for a pair on which it does not raise.
Collected(d, feature_pair) ==
    LET data == Clean(d, feature_pair)
    IN  Record(feature_pair,
               Pearsonr(Iloc(data, 1), Iloc(data, 2)),
               Spearmanr(Iloc(data, 1), Iloc(data, 2)))

\* The whole loop over a pair list, from a given table: the table it leaves
\* behind and whether it raised.
RECURSIVE Loop(_, _, _)
Loop(pairs, d, table) ==
    IF pairs = <<>> THEN [raised |-> FALSE, table |-> table]
    ELSE IF SelfPair(Head(pairs)) THEN Loop(Tail(pairs), d, table)
    ELSE IF Raises(d, Head(pairs)) THEN [raised |-> TRUE, table |-> table]
    ELSE Loop(Tail(pairs), d, AppendRecord(table, Collected(d, Head(pairs))))

\* ------------------------------------------------------------- accumulator

\* None, as a table reference.
None == 0

\* Variant: the empty dictionary is a default argument value, created once
\* and shared by every call that omits the accumulator.
BindSharedDefault(passed, tables) ==
    IF passed = None
    THEN IF tables = <<>>
         THEN [heap |-> <<EmptyTable>>, ref |-> 1]
         ELSE [heap |-> tables, ref |-> 1]
    ELSE [heap |-> tables, ref |-> passed]

\* Variant: a new dictionary is started whether or not results were passed.
BindAlwaysNew(passed, tables) ==
    [heap |-> Append(tables, EmptyTable), ref |-> Len(tables) + 1]

\* "If results weren't passed in, start an empty dictionary": the heap and
\* the reference bound to the local name correlations after lines 16-27.
Bind(passed, tables) ==
    IF passed = None
    THEN [heap |-> Append(tables, EmptyTable), ref |-> Len(tables) + 1]
    ELSE [heap |-> tables, ref |-> passed]

\* ------------------------------------------------------------------ bounds

\* Calls of get_correlations in one session.
MaxCalls == 2

\* Pairs submitted in one session, over all its calls.
MaxPairs == 3

\* Rows of a dataset of the statement-level specification.
NumRowsClean == 3

\* Cells of such a dataset that are missing or infinite.
MaxBad == 2

\* ------------------------------------------------------------------ inputs

\* Columns "A" of the session datasets: a permutation, the reference column
\* itself, a constant, one with an infinite value, one that leaves a single
\* complete row.
SampleColumns ==
    { <<Num(1), Num(2), Num(3)>>,
      <<Num(3), Num(1), Num(2)>>,
      <<Num(2), Num(2), Num(2)>>,
      <<Num(1), PosInf, Num(2)>>,
      <<Num(1), NaN, NegInf>> }

\* Session datasets: columns "A" and "B", three rows; "C" is no column.
Datasets ==
    { Frame(<<"A", "B">>, <<a, <<Num(3), Num(1), Num(2)>> >>) :
        a \in SampleColumns }

\* Pairs callers submit: both orders of a valid pair, a self-pair of a
\* column, a self-pair of an absent name, and a pair naming an absent column.
FeaturePairs ==
    { <<"A", "B">>, <<"B", "A">>, <<"A", "A">>, <<"C", "C">>, <<"A", "C">> }

\* ------------------------------------------------------------------- state

VARIABLES
    df,                 \* the dataset of the session (a frame)
    heap,               \* the result tables ever created, by reference
    held,               \* references the caller holds to returned tables
    pc,                 \* "idle", "loop", "returned" or "raised"
    feature_pairs,      \* the pair list of the call in progress
    k,                  \* position of the loop in feature_pairs
    correlations,       \* the reference bound to the local name
    passed,             \* the reference passed in (None when omitted)
    ret,                \* the reference the last call returned, or None
    entry,              \* the heap as it was when the call was entered
    calls,              \* calls made so far
    submitted,          \* pairs submitted so far, over all calls
    hist,               \* per table: the pair lists of its calls, concatenated
    failed,             \* tables some call on which raised
    frames,             \* the DataFrames ever created, by reference
    feature_pair_data,  \* the reference bound to the local name, or None
    feature_pair,       \* the pair of the iteration
    line,               \* the statement about to run, or "done"/"raised"
    args                \* the two sequences handed to pearsonr and spearmanr

vars ==
    <<df, heap, held, pc, feature_pairs, k, correlations, passed, ret, entry,
      calls, submitted, hist, failed, frames, feature_pair_data, feature_pair, line, args>>

sessionVars ==
    <<df, heap, held, pc, feature_pairs, k, correlations, passed, ret, entry,
      calls, submitted, hist, failed>>

cleanVars == <<frames, feature_pair_data, feature_pair, line, args>>

\* ------------------------------------------------- Spec: a session of calls

SessionInit ==
    /\ df \in Datasets
    /\ heap = <<>>
    /\ held = {}
    /\ pc = "idle"
    /\ feature_pairs = <<>>
    /\ k = 0
    /\ correlations = None
    /\ passed = None
    /\ ret = None
    /\ entry = <<>>
    /\ calls = 0
    /\ submitted = 0
    /\ hist = <<>>
    /\ failed = {}

CleanIdle ==
    /\ frames = <<>>
    /\ feature_pair_data = None
    /\ feature_pair = <<>>
    /\ line = "idle"
    /\ args = [pearsonr |-> <<>>, spearmanr |-> <<>>]

Init == SessionInit /\ CleanIdle

\* get_correlations(pairs, df) or get_correlations(pairs, df, acc) is entered:
\* lines 9-27, up to the first test of the loop.
Call(pairs, acc) ==
    /\ pc \in {"idle", "returned", "raised"}
    /\ calls < MaxCalls
    /\ submitted + Len(pairs) <= MaxPairs
    /\ LET b == Bind(acc, heap)
       IN  /\ heap' = b.heap
           /\ correlations' = b.ref
           /\ hist' = [t \in 1..Len(b.heap) |->
                          IF t # b.ref THEN hist[t]
                          ELSE IF acc = None THEN pairs
                          ELSE hist[acc] \o pairs]
    /\ entry' = heap
    /\ passed' = acc
    /\ feature_pairs' = pairs
    /\ k' = 1
    /\ ret' = None
    /\ pc' = "loop"
    /\ calls' = calls + 1
    /\ submitted' = submitted + Len(pairs)
    /\ UNCHANGED <<df, held, failed>>

\* One iteration on a self pair: nothing but the loop moving on.
LoopSkip ==
    /\ pc = "loop"
    /\ k <= Len(feature_pairs)
    /\ SelfPair(feature_pairs[k])
    /\ k' = k + 1
    /\ UNCHANGED <<df, heap, held, pc, feature_pairs, correlations, passed,
                   ret, entry, calls, submitted, hist, failed>>

\* One iteration that runs to the last append (lines 36-55).
LoopCollect ==
    /\ pc = "loop"
    /\ k <= Len(feature_pairs)
    /\ ~SelfPair(feature_pairs[k])
    /\ ~Raises(df, feature_pairs[k])
    /\ heap' = [heap EXCEPT ![correlations] =
                   AppendRecord(@, Collected(df, feature_pairs[k]))]
    /\ k' = k + 1
    /\ UNCHANGED <<df, held, pc, feature_pairs, correlations, passed, ret,
                   entry, calls, submitted, hist, failed>>

\* Variant: the rows the call added are removed before the exception leaves.
LoopRaiseRollback ==
    /\ pc = "loop"
    /\ k <= Len(feature_pairs)
    /\ ~SelfPair(feature_pairs[k])
    /\ Raises(df, feature_pairs[k])
    /\ pc' = "raised"
    /\ failed' = failed \cup {correlations}
    /\ heap' = [heap EXCEPT ![correlations] =
                   IF passed = None THEN EmptyTable ELSE entry[passed]]
    /\ UNCHANGED <<df, held, feature_pairs, k, correlations, passed,
                   ret, entry, calls, submitted, hist>>

\* One iteration that raises (line 36, 43 or 44): the exception leaves the
\* function, nothing is returned.
LoopRaise ==
    /\ pc = "loop"
    /\ k <= Len(feature_pairs)
    /\ ~SelfPair(feature_pairs[k])
    /\ Raises(df, feature_pairs[k])
    /\ pc' = "raised"
    /\ failed' = failed \cup {correlations}
    /\ UNCHANGED <<df, heap, held, feature_pairs, k, correlations, passed,
                   ret, entry, calls, submitted, hist>>

\* The loop is exhausted: return correlations (line 57).
Return ==
    /\ pc = "loop"
    /\ k > Len(feature_pairs)
    /\ pc' = "returned"
    /\ ret' = correlations
    /\ held' = held \cup {correlations}
    /\ UNCHANGED <<df, heap, feature_pairs, k, correlations, passed, entry,
                   calls, submitted, hist, failed>>

Next ==
    \/ /\ pc # "loop"
       /\ \E n \in 0..(MaxPairs - submitted) :
             \E pairs \in [1..n -> FeaturePairs] : \E acc \in {None} \cup held :
                Call(pairs, acc) /\ UNCHANGED cleanVars
    \/ LoopSkip /\ UNCHANGED cleanVars
    \/ LoopCollect /\ UNCHANGED cleanVars
    \/ LoopRaise /\ UNCHANGED cleanVars
    \/ Return /\ UNCHANGED cleanVars

Spec == Init /\ [][Next]_vars

\* ----------------------------------- SpecClean: the loop body by statement

\* The dataset of NumRowsClean rows and columns "A", "B", "C" whose cells are
\* pairwise distinct finite numbers.
FiniteDataset ==
    Frame(<<"A", "B", "C">>,
          [c \in 1..3 |->
              [i \in 1..NumRowsClean |-> Num(NumRowsClean * (c - 1) + i)]])

\* A cell position and the missing or infinite value put there.
BadSpots == ((1..3) \X (1..NumRowsClean)) \X {NaN, PosInf, NegInf}

RECURSIVE Spoil(_, _)
Spoil(f, spots) ==
    IF spots = <<>> THEN f
    ELSE Spoil([f EXCEPT !.cols[Head(spots)[1][1]][Head(spots)[1][2]] =
                   Head(spots)[2]],
               Tail(spots))

\* Every dataset of that shape with at most MaxBad missing or infinite cells.
CleanDatasets ==
    { Spoil(FiniteDataset, spots) :
        spots \in UNION { [1..m -> BadSpots] : m \in 0..MaxBad } }

\* Pairs of the iteration: every pair of columns, and one naming no column.
CleanPairs == ({"A", "B", "C"} \X {"A", "B", "C"}) \cup {<<"A", "D">>}

NoArgs == [pearsonr |-> <<>>, spearmanr |-> <<>>]

SessionIdle ==
    /\ df = Frame(<<>>, <<>>)
    /\ heap = <<>>
    /\ held = {}
    /\ pc = "idle"
    /\ feature_pairs = <<>>
    /\ k = 0
    /\ correlations = None
    /\ passed = None
    /\ ret = None
    /\ entry = <<>>
    /\ calls = 0
    /\ submitted = 0
    /\ hist = <<>>
    /\ failed = {}

\* The dataset is frame 1; no iteration has started.
CleanInit ==
    /\ SessionIdle
    /\ frames \in { <<d>> : d \in CleanDatasets }
    /\ feature_pair_data = None
    /\ feature_pair = <<>>
    /\ line = "for"
    /\ args = NoArgs

\* Variant: feature_pair_data = df, the name is bound to the dataset itself.
Assign36Alias(fs, pair) == [frames |-> fs, ref |-> 1]

\* Line 36: the frames that exist after
\* feature_pair_data = df[[*feature_pair]].dropna(), and the one the name is
\* bound to: the selection is a new frame, and so is the result of dropna().
Assign36(fs, pair) ==
    [frames |-> fs \o <<SelectColumns(fs[1], pair),
                        Dropna(SelectColumns(fs[1], pair))>>,
     ref |-> Len(fs) + 2]

\* Lines 30-33: the loop takes the next pair; a self pair ends the iteration.
\* Frames of an earlier iteration are no longer referenced.
Line30(pair) ==
    /\ line \in {"for", "done"}
    /\ feature_pair' = pair
    /\ frames' = <<frames[1]>>
    /\ feature_pair_data' = None
    /\ args' = NoArgs
    /\ line' = IF pair[1] # pair[2] THEN "36" ELSE "done"

\* Line 36.
Line36 ==
    /\ line = "36"
    /\ IF LookupFails(frames[1], feature_pair)
       THEN /\ line' = "raised"
            /\ UNCHANGED <<frames, feature_pair_data>>
       ELSE /\ frames' = Assign36(frames, feature_pair).frames
            /\ feature_pair_data' = Assign36(frames, feature_pair).ref
            /\ line' = "39"
    /\ UNCHANGED <<feature_pair, args>>

\* Line 39: replace(..., inplace=True) changes the frame the name refers to.
Line39 ==
    /\ line = "39"
    /\ frames' = [frames EXCEPT ![feature_pair_data] = ReplaceInf(@)]
    /\ line' = "40"
    /\ UNCHANGED <<feature_pair_data, feature_pair, args>>

\* Line 40: dropna(inplace=True), likewise.
Line40 ==
    /\ line = "40"
    /\ frames' = [frames EXCEPT ![feature_pair_data] = Dropna(@)]
    /\ line' = "43"
    /\ UNCHANGED <<feature_pair_data, feature_pair, args>>

\* Line 43: pearsonr receives the two columns by position, and raises on
\* fewer than two rows.
Line43 ==
    /\ line = "43"
    /\ args' = [args EXCEPT !.pearsonr =
                   <<Iloc(frames[feature_pair_data], 1),
                     Iloc(frames[feature_pair_data], 2)>>]
    /\ line' = IF TooShort(Iloc(frames[feature_pair_data], 1))
               THEN "raised" ELSE "44"
    /\ UNCHANGED <<frames, feature_pair_data, feature_pair>>

\* Line 44: spearmanr receives the same two columns.
Line44 ==
    /\ line = "44"
    /\ args' = [args EXCEPT !.spearmanr =
                   <<Iloc(frames[feature_pair_data], 1),
                     Iloc(frames[feature_pair_data], 2)>>]
    /\ line' = "done"
    /\ UNCHANGED <<frames, feature_pair_data, feature_pair>>

CleanNext ==
    \/ \E pair \in CleanPairs : Line30(pair) /\ UNCHANGED sessionVars
    \/ Line36 /\ UNCHANGED sessionVars
    \/ Line39 /\ UNCHANGED sessionVars
    \/ Line40 /\ UNCHANGED sessionVars
    \/ Line43 /\ UNCHANGED sessionVars
    \/ Line44 /\ UNCHANGED sessionVars

SpecClean == CleanInit /\ [][CleanNext]_vars

\* ================================================================ claims

\* The non-self pairs of a pair list, in order.
NonSelf(pairs) == SelectSeq(pairs, LAMBDA p : p[1] # p[2])

\* The table the call in progress started from.
Before == IF passed = None THEN EmptyTable ELSE entry[passed]

\* The table holds the rows of `before`, then one row per pair of `new`, in
\* order, in every column.
Extends(table, before, new) ==
    \A c \in Columns :
        /\ Len(table[c]) = Len(before[c]) + Len(new)
        /\ SubSeq(table[c], 1, Len(before[c])) = before[c]
        /\ \A j \in 1..Len(new) :
              /\ table["Feature 1"][Len(before["Feature 1"]) + j] = new[j][1]
              /\ table["Feature 2"][Len(before["Feature 2"]) + j] = new[j][2]

\* C1: in every row of every result table, 'Absolute Spearman' is the
\* absolute value of 'Spearman' and 'Absolute Pearson' is the absolute value
\* of 'Pearson'.
C1_AbsoluteColumns ==
    \A t \in 1..Len(heap) : \A i \in 1..Len(heap[t]["Pearson"]) :
        /\ heap[t]["Absolute Spearman"][i] = Abs(heap[t]["Spearman"][i])
        /\ heap[t]["Absolute Pearson"][i] = Abs(heap[t]["Pearson"][i])

\* C2: an iteration on a self pair (A, A) changes no table and raises
\* nothing, the loop just moves to the next pair; in any call of the session,
\* with the accumulator omitted or supplied, whether or not A is a column.
C2_SelfPairSkipped ==
    [][(/\ pc = "loop"
        /\ k <= Len(feature_pairs)
        /\ feature_pairs[k][1] = feature_pairs[k][2])
       => (heap' = heap /\ pc' = "loop" /\ k' = k + 1)]_vars

\* C2 witness: a call on a supplied accumulator has just passed the self
\* pair of a name that is no column of the dataset.
C2_Witness ==
    /\ pc = "loop"
    /\ passed # None
    /\ k > 1
    /\ feature_pairs[k - 1] = <<"C", "C">>
    /\ ~HasColumn(df, "C")

\* C3: when a call has returned, every one of the nine columns holds the
\* rows it had at entry, unchanged and in place, followed by one row per
\* non-self pair of the pair list, in input order, duplicates included.
C3_OneRowPerPair ==
    pc = "returned" => Extends(heap[ret], Before, NonSelf(feature_pairs))

\* C3 witness: a call that returned after a self pair and a pair the table
\* already held from an earlier call.
C3_Witness ==
    /\ pc = "returned"
    /\ passed # None
    /\ feature_pairs = <<<<"A", "A">>, <<"A", "B">>>>
    /\ entry[passed]["Feature 1"] = <<"A">>
    /\ entry[passed]["Feature 2"] = <<"B">>

\* C4: a table built by an accumulator-less call and calls continuing from
\* its result, all returned, equals the table of one accumulator-less call
\* on the concatenation of their pair lists, which returns too.
C4_SplitEqualsWhole ==
    (pc = "returned" /\ ret \notin failed) =>
        LET whole == Loop(hist[ret], df, EmptyTable)
        IN  ~whole.raised /\ whole.table = heap[ret]

\* C4 witness: a second call returned on the result of a first one, both
\* having added rows.
C4_Witness ==
    /\ pc = "returned"
    /\ passed # None
    /\ ret \notin failed
    /\ Len(entry[passed]["Pearson"]) > 0
    /\ Len(heap[ret]["Pearson"]) > Len(entry[passed]["Pearson"])

\* C5: with the accumulator omitted the call works on a table that did not
\* exist at entry and that has the nine columns, all empty, before the first
\* iteration; with a table supplied it works on that very table and returns
\* it, so the reference the caller held designates the rows added; no other
\* table changes.
C5_FreshOrInPlace ==
    pc \in {"loop", "returned", "raised"} =>
        /\ IF passed = None
           THEN /\ correlations \notin 1..Len(entry)
                /\ (pc = "loop" /\ k = 1) =>
                      /\ DOMAIN heap[correlations] = Columns
                      /\ Cardinality(Columns) = 9
                      /\ \A c \in Columns : heap[correlations][c] = <<>>
           ELSE /\ correlations = passed
                /\ passed \in held
        /\ pc = "returned" =>
              /\ ret = correlations
              /\ ret \in held
              /\ Len(heap[ret]["Feature 1"]) =
                    Len(Before["Feature 1"]) + Len(NonSelf(feature_pairs))
        /\ \A t \in 1..Len(entry) : t # correlations => heap[t] = entry[t]

\* C5 witness: an accumulator-less call returned rows while an earlier
\* accumulator-less call's table, with rows of its own, exists.
C5_Witness ==
    /\ pc = "returned"
    /\ passed = None
    /\ Len(entry) = 1
    /\ Len(entry[1]["Pearson"]) > 0
    /\ Len(heap[ret]["Pearson"]) > 0

\* C7: in every state, every result table has nine columns of one length.
C7_EqualLengths ==
    \A t \in 1..Len(heap) : \A c \in Columns :
        Len(heap[t][c]) = Len(heap[t]["Feature 1"])

\* C7 witness: a call on a supplied table raised after it had added a row.
C7_Witness ==
    /\ pc = "raised"
    /\ passed # None
    /\ Len(heap[passed]["Pearson"]) > Len(entry[passed]["Pearson"])

\* C9: in every row of every result table, 'Pearson r-squared' is the
\* square of 'Pearson'.
C9_RSquared ==
    \A t \in 1..Len(heap) : \A i \in 1..Len(heap[t]["Pearson"]) :
        heap[t]["Pearson r-squared"][i] = Square(heap[t]["Pearson"][i])

\* C9 witness: a row whose coefficient is negative and not -1.
C9_Witness ==
    \E t \in 1..Len(heap) : \E i \in 1..Len(heap[t]["Pearson"]) :
        /\ ~heap[t]["Pearson"][i].nan
        /\ heap[t]["Pearson"][i].sign = -1
        /\ heap[t]["Pearson"][i].den > 1

\* C10: when a call has raised at its k-th pair, that pair is a non-self
\* pair, nothing was returned, and the table holds the rows it had at entry
\* followed by the rows of the non-self pairs before the k-th, no more; the
\* only step that follows is a new call by the caller.
C10_RaisePropagates ==
    /\ [](pc = "raised" =>
            /\ ret = None
            /\ k <= Len(feature_pairs)
            /\ feature_pairs[k][1] # feature_pairs[k][2]
            /\ Extends(heap[correlations], Before,
                       NonSelf(SubSeq(feature_pairs, 1, k - 1))))
    /\ [][pc = "raised" => (calls' = calls + 1 /\ pc' = "loop" /\ k' = 1)]_vars

\* C10 witness: a call on a supplied, non-empty table raised at its second
\* pair after adding the row of its first.
C10_Witness ==
    /\ pc = "raised"
    /\ passed # None
    /\ k = 2
    /\ Len(entry[passed]["Pearson"]) > 0
    /\ Len(heap[passed]["Pearson"]) = Len(entry[passed]["Pearson"]) + 1

\* The rows of two columns at which both cells are finite numbers.
JointlyFinite(a, b) ==
    LET idx == SelectSeq(RowIndex(Len(a)),
                         LAMBDA i : a[i].kind = "num" /\ b[i].kind = "num")
    IN  <<[j \in 1..Len(idx) |-> a[idx[j]]], [j \in 1..Len(idx) |-> b[idx[j]]]>>

\* C6: what pearsonr receives, and what spearmanr receives, for a pair
\* (A, B) are the cells of A and of B at exactly the dataset rows where both
\* are finite numbers, in dataset order and row by row; whatever the pair.
C6_CompleteFiniteRows ==
    /\ args.pearsonr # <<>> =>
          args.pearsonr = JointlyFinite(Column(frames[1], feature_pair[1]),
                                        Column(frames[1], feature_pair[2]))
    /\ line = "done" /\ feature_pair[1] # feature_pair[2] =>
          args.spearmanr = JointlyFinite(Column(frames[1], feature_pair[1]),
                                         Column(frames[1], feature_pair[2]))

\* C6 witness: the pair (A, C) used every row but the one where A is -inf,
\* among them a row that is missing in B.
C6_Witness ==
    /\ line = "done"
    /\ feature_pair = <<"A", "C">>
    /\ Column(frames[1], "A")[2] = NegInf
    /\ Column(frames[1], "B")[1] = NaN
    /\ Len(args.spearmanr[1]) = NumRowsClean - 1

\* C8: no statement of the loop body changes the dataset, and none changes
\* the pair it works on; so after an iteration, finished or raised, the
\* dataset is what it was.
C8_DatasetUntouched ==
    [][/\ frames'[1] = frames[1]
       /\ line \notin {"for", "done"} => feature_pair' = feature_pair]_vars

\* C8 witness: an iteration ended, by returning or raising, whose cleaned
\* copy lost a row with an infinite value that the dataset still has.
C8_Witness ==
    /\ line \in {"done", "raised"}
    /\ feature_pair_data # None
    /\ NumRows(frames[feature_pair_data]) < NumRows(frames[1])
    /\ \E i \in 1..NumRows(frames[1]) :
          Column(frames[1], feature_pair[1])[i].kind = "inf"

====
